---- MODULE Spec2Model ----
(***************************************************************************)
(* A model of tfjs-core/src/profiler.ts: Profiler.profileKernel with its   *)
(* dangling promises, checkComputationForErrors and Logger.                *)
(*                                                                         *)
(* Text is a sequence of one-character strings, so that padding and        *)
(* concatenation are computed.  A number read back from a backend is a     *)
(* token: a decimal numeral, or one of "NaN", "Infinity", "-Infinity".     *)
(* JavaScript runs one synchronous call to completion before any promise   *)
(* continuation; the steps of one profileKernel call are therefore         *)
(* exclusive of every continuation (see Running).                          *)
(***************************************************************************)
EXTENDS Integers, Sequences, FiniteSets, TLC

VARIABLES
    loggerArg,   \* the logger argument of the constructor: "null" | "undefined" | "injected"
    logger,      \* Profiler.logger after construction: "default" | "injected"
    client,      \* per invocation: the arguments the caller passes
    pc,          \* per invocation: position of the synchronous call
    result,      \* per invocation: the captured `result` variable
    ret,         \* per invocation: the value profileKernel returned
    fCalls,      \* per invocation: number of times f was invoked
    timerCalls,  \* per invocation: number of backendTimer.time calls
    timer,       \* per invocation: the promise returned by backendTimer.time
    reads,       \* per invocation: one record per dataReader call, in order
    chk,         \* one run of checkComputationForErrors, statement by statement
    lg           \* one call of Logger.logKernelProfile

vars == <<loggerArg, logger, client, pc, result, ret, fCalls, timerCalls, timer, reads,
          chk, lg>>

profVars == <<loggerArg, logger, client, pc, result, ret, fCalls, timerCalls, timer,
              reads>>

----------------------------------------------------------------------------
(* Bounds of the model *)

\* longest sequence of outputs a compute closure returns
MaxOutputs == 2

\* longest sequence of values handed to checkComputationForErrors on its own
MaxLen == 3

----------------------------------------------------------------------------
(* Text helpers *)

Spaces(n) == [i \in 1..n |-> " "]

Digit(d) == CASE d = 0 -> "0" [] d = 1 -> "1" [] d = 2 -> "2" [] d = 3 -> "3"
              [] d = 4 -> "4" [] d = 5 -> "5" [] d = 6 -> "6" [] d = 7 -> "7"
              [] d = 8 -> "8" [] d = 9 -> "9"

\* `${n}` for a non-negative integer n
RECURSIVE NumToString(_)
NumToString(n) == IF n < 10 THEN <<Digit(n)>>
                  ELSE NumToString(n \div 10) \o <<Digit(n % 10)>>

\* Array.prototype.toString of a shape: the dimensions joined by ","
RECURSIVE ShapeToString(_)
ShapeToString(shape) ==
    IF shape = <<>> THEN <<>>
    ELSE IF Len(shape) = 1 THEN NumToString(shape[1])
    ELSE NumToString(shape[1]) \o <<",">> \o ShapeToString(Tail(shape))

\* util.rightPad(a, size)
RightPad(a, size) == IF size <= Len(a) THEN a ELSE a \o Spaces(size - Len(a))

\* util.sizeFromShape(shape)
RECURSIVE SizeFromShape(_)
SizeFromShape(shape) ==
    IF shape = <<>> THEN 1 ELSE shape[1] * SizeFromShape(Tail(shape))

----------------------------------------------------------------------------
(* checkComputationForErrors, profiler.ts:68-83 *)

IsNaN(num) == num = "NaN"

IsFinite(num) == num \notin {"NaN", "Infinity", "-Infinity"}

\* the text of console.warn at line 78
WarnText(num, kernelName) ==
    <<"Found ", num, " in the result of '", kernelName, "'">>

\* the frame on entry: nothing examined, nothing warned, no return value yet
CheckEntry(vals, dtype, kernelName) ==
    [at |-> "entry", vals |-> vals, dtype |-> dtype, kernelName |-> kernelName,
     i |-> 0, examined |-> <<>>, warned |-> <<>>, ret |-> FALSE]

\* variant: only int32 is taken for a non-floating type
CheckDtypeMut(s) ==
    IF s.dtype = "int32"
    THEN [s EXCEPT !.at = "done", !.ret = FALSE]
    ELSE [s EXCEPT !.at = "loop", !.i = 0]

\* line 70-73: the dtype test
CheckDtype(s) ==
    IF s.dtype # "float32"
    THEN [s EXCEPT !.at = "done", !.ret = FALSE]
    ELSE [s EXCEPT !.at = "loop", !.i = 0]

\* variant: the loop warns and goes on instead of returning at the first hit
CheckLoopMut(s) ==
    IF ~(s.i < Len(s.vals))
    THEN [s EXCEPT !.at = "done", !.ret = FALSE]
    ELSE LET num == s.vals[s.i + 1]
             seen == Append(s.examined, s.i)
         IN IF IsNaN(num) \/ ~IsFinite(num)
            THEN [s EXCEPT !.examined = seen, !.i = s.i + 1,
                           !.warned = Append(s.warned, WarnText(num, s.kernelName))]
            ELSE [s EXCEPT !.examined = seen, !.i = s.i + 1]

\* line 74-82: one evaluation of the loop test and, when it holds, of the body;
\* i is the zero-based index of the source, vals[i] is vals[s.i + 1] here
CheckLoop(s) ==
    IF ~(s.i < Len(s.vals))
    THEN [s EXCEPT !.at = "done", !.ret = FALSE]
    ELSE LET num == s.vals[s.i + 1]
             seen == Append(s.examined, s.i)
         IN IF IsNaN(num) \/ ~IsFinite(num)
            THEN [s EXCEPT !.at = "done", !.ret = TRUE, !.examined = seen,
                           !.warned = Append(s.warned, WarnText(num, s.kernelName))]
            ELSE [s EXCEPT !.examined = seen, !.i = s.i + 1]

CheckStep(s) == IF s.at = "entry" THEN CheckDtype(s) ELSE CheckLoop(s)

\* the statements in turn, until the return; each frame is bound as a value
RECURSIVE CheckRun(_)
CheckRun(s) ==
    IF s.at = "done" THEN s
    ELSE CHOOSE r \in { CheckRun(t) : t \in {CheckStep(s)} } : TRUE

\* the whole call: its return value is .ret, its warnings are .warned
checkComputationForErrors(vals, dtype, kernelName) ==
    CheckRun(CheckEntry(vals, dtype, kernelName))

----------------------------------------------------------------------------
(* Logger.logKernelProfile, profiler.ts:85-109 *)

NameWidth == 25
TimeWidth == 9
ShapeWidth == 14

\* the six style arguments of console.log, lines 106-107
LogStyles == <<"font-weight:bold", "color:red", "color:blue", "color: orange",
               "color: green", "color: steelblue">>

\* lines 97-100: the description of one input of the mapping
InputDescription(input) ==
    LET inputShape == input.shape
        inputRank == Len(inputShape)
    IN input.name \o <<":", " ">> \o NumToString(inputRank) \o <<"D", " ">>
       \o (IF inputRank > 0 THEN ShapeToString(inputShape) ELSE <<>>) \o <<" ">>

\* lines 94-101: the for-in loop over the inputs, in the mapping's order
RECURSIVE InputShapesDescription(_)
InputShapesDescription(inputs) ==
    IF inputs = <<>> THEN <<>>
    ELSE InputDescription(Head(inputs)) \o InputShapesDescription(Tail(inputs))

\* variant: the element-count column shows the rank
logKernelProfileMut(name, res, vals, timeMs, inputs, extraInfo) ==
    LET time == RightPad(NumToString(timeMs) \o <<"m", "s">>, TimeWidth)
        paddedName == RightPad(name, NameWidth)
        rank == Len(res.shape)
        size == SizeFromShape(res.shape)
        shape == RightPad(ShapeToString(res.shape), ShapeWidth)
        inputShapesDescription == InputShapesDescription(inputs)
    IN << [fmt |-> <<"%", "c">> \o paddedName \o <<"\t", "%", "c">> \o time
                   \o <<"\t", "%", "c">> \o NumToString(rank) \o <<"D", " ">> \o shape
                   \o <<"\t", "%", "c">> \o NumToString(rank)
                   \o <<"\t", "%", "c">> \o inputShapesDescription
                   \o <<"\t", "%", "c">> \o extraInfo,
           styles |-> LogStyles] >>

\* the sequence of console.log calls one logKernelProfile call makes; each is
\* the format string and the style arguments
logKernelProfile(name, res, vals, timeMs, inputs, extraInfo) ==
    LET time == RightPad(NumToString(timeMs) \o <<"m", "s">>, TimeWidth)
        paddedName == RightPad(name, NameWidth)
        rank == Len(res.shape)
        size == SizeFromShape(res.shape)
        shape == RightPad(ShapeToString(res.shape), ShapeWidth)
        inputShapesDescription == InputShapesDescription(inputs)
    IN << [fmt |-> <<"%", "c">> \o paddedName \o <<"\t", "%", "c">> \o time
                   \o <<"\t", "%", "c">> \o NumToString(rank) \o <<"D", " ">> \o shape
                   \o <<"\t", "%", "c">> \o NumToString(size)
                   \o <<"\t", "%", "c">> \o inputShapesDescription
                   \o <<"\t", "%", "c">> \o extraInfo,
           styles |-> LogStyles] >>

----------------------------------------------------------------------------
(* The values the caller and the collaborators supply *)

CallIds == {1, 2}

KernelNames == { <<"A", "d", "d">>, <<"M", "a", "t", "M", "u", "l">> }

\* a kernel name of 26 characters, longer than the name column
LongName == <<"F", "u", "s", "e", "d", "D", "e", "p", "t", "h", "w", "i", "s",
              "e", "C", "o", "n", "v", "2", "D", "N", "a", "t", "i", "v", "e">>

DTypes == {"float32", "int32", "bool"}

Tokens == {"1", "NaN", "Infinity", "-Infinity"}

Shapes == { <<>>, <<3>>, <<2, 2>>, <<100, 100, 100, 100>> }

\* TensorInfo: {dataId, shape, dtype}
NoInfo == [dataId |-> 0, dtype |-> "", shape |-> <<>>]

Infos == { [dataId |-> 1, dtype |-> "float32", shape |-> <<2, 2>>],
           [dataId |-> 2, dtype |-> "int32", shape |-> <<>>] }

\* values of type T: one TensorInfo, or an array of them
Undefined == [kind |-> "undefined", info |-> NoInfo, items |-> <<>>]

One(d) == [kind |-> "info", info |-> d, items |-> <<>>]

Many(ds) == [kind |-> "array", info |-> NoInfo, items |-> ds]

SeqsUpTo(S, n) == UNION { [1..m -> S] : m \in 0..n }

Closures == { One(d) : d \in Infos } \cup { Many(ds) : ds \in SeqsUpTo(Infos, MaxOutputs) }

\* NamedTensorMap, as the sequence of its entries in for-in order
InputMaps ==
    { <<>>,
      << [name |-> <<"a">>, shape |-> <<2, 2>>], [name |-> <<"b">>, shape |-> <<>>] >> }

LoggerInputMaps ==
    InputMaps \cup
    { << [name |-> <<"x">>, shape |-> <<3>>] >>,
      << [name |-> <<"b">>, shape |-> <<>>], [name |-> <<"a">>, shape |-> <<2, 2>>] >> }

\* BackendValues a read resolves with
ReadValues == { <<"1", "1", "1", "1">>, <<"1", "NaN", "-Infinity">> }

\* BackendTimingInfo; getExtraProfileInfo is optional
NoTiming == [kernelMs |-> 0, hasExtra |-> FALSE, extra |-> <<>>]

Timings == { [kernelMs |-> 5, hasExtra |-> FALSE, extra |-> <<>>],
             [kernelMs |-> 12, hasExtra |-> TRUE, extra |-> <<"x", "=", "1">>] }

LoggerTimes == {0, 12, 1234567}

LoggerExtras == { <<>>, <<"x", "=", "1">> }

NoCall == [made |-> FALSE, kernelName |-> <<>>, inputs |-> <<>>, f |-> Undefined]

Calls == [made : {TRUE}, kernelName : KernelNames, inputs : InputMaps, f : Closures]

----------------------------------------------------------------------------
(* Profiler, profiler.ts:26-66 *)

\* variant: the test is logger === null, which undefined does not pass
ConstructorMut(arg) == IF arg = "null" THEN "default" ELSE arg

\* lines 27-34: the logger the constructor stores; logger == null holds of
\* null and of undefined
Constructor(arg) == IF arg \in {"null", "undefined"} THEN "default" ELSE arg

\* a synchronous profileKernel call is on the stack
Running == \E c \in CallIds : pc[c] = "forEach"

\* variant: the result is taken for an array without the test
ResultsMut(v) == v.items

\* lines 44-45: Array.isArray(result) ? result : [result]
Results(v) == IF v.kind = "array" THEN v.items ELSE <<v.info>>

\* the promise dataReader returned for descriptor r, with the then-callback of
\* lines 49-61 attached; "threw" when dataReader raised instead of returning
NewRead(r, outcome) ==
    [r |-> r, key |-> r.dataId, state |-> outcome, vals |-> <<>>,
     stage |-> "wait", checks |-> 0, warned |-> <<>>, accessorCalls |-> 0,
     logs |-> <<>>, lines |-> <<>>]

\* lines 39-41: holdResultWrapperFn
HoldResultWrapperFn(c) ==
    /\ result' = [result EXCEPT ![c] = client[c].f]
    /\ fCalls' = [fCalls EXCEPT ![c] = @ + 1]

\* BackendTimer.time(fn): runs fn once, synchronously, and returns a promise
BackendTimerTime(c) ==
    /\ HoldResultWrapperFn(c)
    /\ timer' = [timer EXCEPT ![c] = [state |-> "pending", timing |-> NoTiming]]

\* lines 38-42: the call enters and times the closure
ProfileKernelTime(c) ==
    /\ client[c].made
    /\ pc[c] = "idle"
    /\ ~Running
    /\ timerCalls' = [timerCalls EXCEPT ![c] = @ + 1]
    /\ BackendTimerTime(c)
    /\ pc' = [pc EXCEPT ![c] = "forEach"]
    /\ UNCHANGED <<loggerArg, logger, client, ret, reads, chk, lg>>

\* lines 46-49: one iteration of results.forEach: dataReader(r.dataId) is
\* called, and either returns a promise or raises
ProfileKernelRead(c) ==
    /\ pc[c] = "forEach"
    /\ Len(reads[c]) < Len(Results(result[c]))
    /\ LET r == Results(result[c])[Len(reads[c]) + 1]
       IN \E outcome \in {"pending", "threw"} :
            /\ reads' = [reads EXCEPT ![c] = Append(@, NewRead(r, outcome))]
            /\ pc' = IF outcome = "threw" THEN [pc EXCEPT ![c] = "threw"] ELSE pc
    /\ UNCHANGED <<loggerArg, logger, client, result, ret, fCalls, timerCalls, timer, chk, lg>>

\* variant: return results, the normalised array
ProfileKernelReturnMut(c) ==
    /\ pc[c] = "forEach"
    /\ Len(reads[c]) = Len(Results(result[c]))
    /\ ret' = [ret EXCEPT ![c] = Many(Results(result[c]))]
    /\ pc' = [pc EXCEPT ![c] = "returned"]
    /\ UNCHANGED <<loggerArg, logger, client, result, fCalls, timerCalls, timer, reads, chk, lg>>

\* variant: return f(), a second invocation of the closure
ProfileKernelReturnAgainMut(c) ==
    /\ pc[c] = "forEach"
    /\ Len(reads[c]) = Len(Results(result[c]))
    /\ ret' = [ret EXCEPT ![c] = client[c].f]
    /\ fCalls' = [fCalls EXCEPT ![c] = @ + 1]
    /\ pc' = [pc EXCEPT ![c] = "returned"]
    /\ UNCHANGED <<loggerArg, logger, client, result, timerCalls, timer, reads, chk, lg>>

\* line 64: return result
ProfileKernelReturn(c) ==
    /\ pc[c] = "forEach"
    /\ Len(reads[c]) = Len(Results(result[c]))
    /\ ret' = [ret EXCEPT ![c] = result[c]]
    /\ pc' = [pc EXCEPT ![c] = "returned"]
    /\ UNCHANGED <<loggerArg, logger, client, result, fCalls, timerCalls, timer, reads, chk, lg>>

\* the data reader settles the promise of read k
ReadResolve(c, k) ==
    /\ k \in 1..Len(reads[c])
    /\ reads[c][k].state = "pending"
    /\ \E vals \in ReadValues :
         reads' = [reads EXCEPT ![c][k] = [@ EXCEPT !.state = "resolved", !.vals = vals]]
    /\ UNCHANGED <<loggerArg, logger, client, pc, result, ret, fCalls, timerCalls, timer, chk, lg>>

ReadReject(c, k) ==
    /\ k \in 1..Len(reads[c])
    /\ reads[c][k].state = "pending"
    /\ reads' = [reads EXCEPT ![c][k] = [@ EXCEPT !.state = "rejected"]]
    /\ UNCHANGED <<loggerArg, logger, client, pc, result, ret, fCalls, timerCalls, timer, chk, lg>>

\* the backend timer settles its promise
TimerResolve(c) ==
    /\ timer[c].state = "pending"
    /\ \E timing \in Timings :
         timer' = [timer EXCEPT ![c] = [state |-> "resolved", timing |-> timing]]
    /\ UNCHANGED <<loggerArg, logger, client, pc, result, ret, fCalls, timerCalls, reads, chk, lg>>

TimerReject(c) ==
    /\ timer[c].state = "pending"
    /\ timer' = [timer EXCEPT ![c] = [state |-> "rejected", timing |-> NoTiming]]
    /\ UNCHANGED <<loggerArg, logger, client, pc, result, ret, fCalls, timerCalls, reads, chk, lg>>

\* variant: the callback is run at once, inside the synchronous call
ReadThenMut(c, k) ==
    /\ k \in 1..Len(reads[c])
    /\ reads[c][k].state = "resolved"
    /\ reads[c][k].stage = "wait"
    /\ LET rd == reads[c][k]
           check == checkComputationForErrors(rd.vals, rd.r.dtype, client[c].kernelName)
       IN reads' = [reads EXCEPT ![c][k] =
                      [@ EXCEPT !.stage = "registered", !.checks = @ + 1,
                                !.warned = @ \o check.warned]]
    /\ UNCHANGED <<loggerArg, logger, client, pc, result, ret, fCalls, timerCalls, timer, chk, lg>>

\* variant: the read's callback is attached inside timer.then, so validation
\* waits for the timer
ReadThenWaitMut(c, k) ==
    /\ ~Running
    /\ k \in 1..Len(reads[c])
    /\ reads[c][k].state = "resolved"
    /\ reads[c][k].stage = "wait"
    /\ timer[c].state = "resolved"
    /\ LET rd == reads[c][k]
           check == checkComputationForErrors(rd.vals, rd.r.dtype, client[c].kernelName)
       IN reads' = [reads EXCEPT ![c][k] =
                      [@ EXCEPT !.stage = "registered", !.checks = @ + 1,
                                !.warned = @ \o check.warned]]
    /\ UNCHANGED <<loggerArg, logger, client, pc, result, ret, fCalls, timerCalls, timer,
                   chk, lg>>

\* variant: a validation failure is thrown, which ends the callback before
\* timer.then
ReadThenThrowMut(c, k) ==
    /\ ~Running
    /\ k \in 1..Len(reads[c])
    /\ reads[c][k].state = "resolved"
    /\ reads[c][k].stage = "wait"
    /\ LET rd == reads[c][k]
           check == checkComputationForErrors(rd.vals, rd.r.dtype, client[c].kernelName)
       IN reads' = [reads EXCEPT ![c][k] =
                      [@ EXCEPT !.stage = IF check.ret THEN "failed" ELSE "registered",
                                !.checks = @ + 1,
                                !.warned = @ \o check.warned]]
    /\ UNCHANGED <<loggerArg, logger, client, pc, result, ret, fCalls, timerCalls, timer,
                   chk, lg>>

\* variant: the reads are gathered with Promise.all, so no output is
\* validated unless every read of the call resolved
ReadThenAllMut(c, k) ==
    /\ ~Running
    /\ k \in 1..Len(reads[c])
    /\ \A j \in 1..Len(reads[c]) : reads[c][j].state = "resolved"
    /\ reads[c][k].stage = "wait"
    /\ LET rd == reads[c][k]
           check == checkComputationForErrors(rd.vals, rd.r.dtype, client[c].kernelName)
       IN reads' = [reads EXCEPT ![c][k] =
                      [@ EXCEPT !.stage = "registered", !.checks = @ + 1,
                                !.warned = @ \o check.warned]]
    /\ UNCHANGED <<loggerArg, logger, client, pc, result, ret, fCalls, timerCalls, timer,
                   chk, lg>>

\* lines 49-52: the callback of the read: validation, then timer.then(...)
ReadThen(c, k) ==
    /\ ~Running
    /\ k \in 1..Len(reads[c])
    /\ reads[c][k].state = "resolved"
    /\ reads[c][k].stage = "wait"
    /\ LET rd == reads[c][k]
           check == checkComputationForErrors(rd.vals, rd.r.dtype, client[c].kernelName)
       IN reads' = [reads EXCEPT ![c][k] =
                      [@ EXCEPT !.stage = "registered", !.checks = @ + 1,
                                !.warned = @ \o check.warned]]
    /\ UNCHANGED <<loggerArg, logger, client, pc, result, ret, fCalls, timerCalls, timer, chk, lg>>

\* variant: extraInfo is declared without the initial '', and is logged as
\* undefined when the timing has no accessor
ExtraInfoMut(timing) == IF timing.hasExtra THEN timing.extra ELSE <<"undefined">>

\* lines 53-56
ExtraInfo(timing) == IF timing.hasExtra THEN timing.extra ELSE <<>>

\* what a logKernelProfile call can do: the Logger of this file returns; an
\* injected one returns or raises
LoggerOutcomes(lgr) == IF lgr = "default" THEN {"returned"} ELSE {"returned", "threw"}

\* variant: the logger is called without waiting for the timer
TimerThenMut(c, k) ==
    /\ ~Running
    /\ k \in 1..Len(reads[c])
    /\ reads[c][k].stage = "registered"
    /\ LET rd == reads[c][k]
           timing == timer[c].timing
           extraInfo == ExtraInfo(timing)
       IN \E outcome \in LoggerOutcomes(logger) :
            reads' = [reads EXCEPT ![c][k] =
              [@ EXCEPT
                 !.stage = "done",
                 !.accessorCalls = @ + (IF timing.hasExtra THEN 1 ELSE 0),
                 !.logs = Append(@, [logger |-> logger, outcome |-> outcome,
                                     name |-> client[c].kernelName, result |-> rd.r,
                                     vals |-> rd.vals, timeMs |-> timing.kernelMs,
                                     inputs |-> client[c].inputs,
                                     extraInfo |-> extraInfo]),
                 !.lines = @ \o (IF logger = "default"
                                 THEN logKernelProfile(client[c].kernelName, rd.r, rd.vals,
                                                      timing.kernelMs, client[c].inputs,
                                                      extraInfo)
                                 ELSE <<>>)]]
    /\ UNCHANGED <<loggerArg, logger, client, pc, result, ret, fCalls, timerCalls, timer, chk, lg>>

\* variant: every output is logged with the values of the first read
TimerThenFirstMut(c, k) ==
    /\ ~Running
    /\ k \in 1..Len(reads[c])
    /\ reads[c][k].stage = "registered"
    /\ timer[c].state = "resolved"
    /\ LET rd == reads[c][k]
           timing == timer[c].timing
           extraInfo == ExtraInfo(timing)
       IN \E outcome \in LoggerOutcomes(logger) :
            reads' = [reads EXCEPT ![c][k] =
              [@ EXCEPT
                 !.stage = "done",
                 !.accessorCalls = @ + (IF timing.hasExtra THEN 1 ELSE 0),
                 !.logs = Append(@, [logger |-> logger, outcome |-> outcome,
                                     name |-> client[c].kernelName, result |-> rd.r,
                                     vals |-> reads[c][1].vals, timeMs |-> timing.kernelMs,
                                     inputs |-> client[c].inputs,
                                     extraInfo |-> extraInfo]),
                 !.lines = @ \o (IF logger = "default"
                                 THEN logKernelProfile(client[c].kernelName, rd.r, rd.vals,
                                                      timing.kernelMs, client[c].inputs,
                                                      extraInfo)
                                 ELSE <<>>)]]
    /\ UNCHANGED <<loggerArg, logger, client, pc, result, ret, fCalls, timerCalls, timer, chk, lg>>

\* variant: the timer is kept in a field of the Profiler, where a later
\* invocation overwrites it
TimerThenSharedMut(c, k) ==
    /\ ~Running
    /\ k \in 1..Len(reads[c])
    /\ reads[c][k].stage = "registered"
    /\ LET last == CHOOSE d \in CallIds :
                     /\ timer[d].state # "none"
                     /\ \A e \in CallIds : timer[e].state # "none" => e <= d
           rd == reads[c][k]
           timing == timer[last].timing
           extraInfo == ExtraInfo(timing)
       IN /\ timer[last].state = "resolved"
          /\ \E outcome \in LoggerOutcomes(logger) :
            reads' = [reads EXCEPT ![c][k] =
              [@ EXCEPT
                 !.stage = "done",
                 !.accessorCalls = @ + (IF timing.hasExtra THEN 1 ELSE 0),
                 !.logs = Append(@, [logger |-> logger, outcome |-> outcome,
                                     name |-> client[c].kernelName, result |-> rd.r,
                                     vals |-> rd.vals, timeMs |-> timing.kernelMs,
                                     inputs |-> client[c].inputs,
                                     extraInfo |-> extraInfo]),
                 !.lines = @ \o (IF logger = "default"
                                 THEN logKernelProfile(client[c].kernelName, rd.r, rd.vals,
                                                      timing.kernelMs, client[c].inputs,
                                                      extraInfo)
                                 ELSE <<>>)]]
    /\ UNCHANGED <<loggerArg, logger, client, pc, result, ret, fCalls, timerCalls, timer, chk, lg>>

\* lines 52-60: the callback of the timer, registered by ReadThen
TimerThen(c, k) ==
    /\ ~Running
    /\ k \in 1..Len(reads[c])
    /\ reads[c][k].stage = "registered"
    /\ timer[c].state = "resolved"
    /\ LET rd == reads[c][k]
           timing == timer[c].timing
           extraInfo == ExtraInfo(timing)
       IN \E outcome \in LoggerOutcomes(logger) :
            reads' = [reads EXCEPT ![c][k] =
              [@ EXCEPT
                 !.stage = "done",
                 !.accessorCalls = @ + (IF timing.hasExtra THEN 1 ELSE 0),
                 !.logs = Append(@, [logger |-> logger, outcome |-> outcome,
                                     name |-> client[c].kernelName, result |-> rd.r,
                                     vals |-> rd.vals, timeMs |-> timing.kernelMs,
                                     inputs |-> client[c].inputs,
                                     extraInfo |-> extraInfo]),
                 !.lines = @ \o (IF logger = "default"
                                 THEN logKernelProfile(client[c].kernelName, rd.r, rd.vals,
                                                      timing.kernelMs, client[c].inputs,
                                                      extraInfo)
                                 ELSE <<>>)]]
    /\ UNCHANGED <<loggerArg, logger, client, pc, result, ret, fCalls, timerCalls, timer, chk, lg>>

----------------------------------------------------------------------------
(* The two functions called on their own *)

CheckIdle == [at |-> "idle", vals |-> <<>>, dtype |-> "", kernelName |-> <<>>,
              i |-> 0, examined |-> <<>>, warned |-> <<>>, ret |-> FALSE]

\* one statement of a checkComputationForErrors call
CheckAdvance ==
    /\ chk.at \in {"entry", "loop"}
    /\ chk' = CheckStep(chk)
    /\ UNCHANGED <<profVars, lg>>

LogIdle == [at |-> "idle", name |-> <<>>, result |-> NoInfo, vals |-> <<>>,
            timeMs |-> 0, inputs |-> <<>>, extraInfo |-> <<>>, lines |-> <<>>]

\* one call of logKernelProfile on a Logger
LoggerCall ==
    /\ lg.at = "entry"
    /\ lg' = [lg EXCEPT !.at = "done",
                        !.lines = @ \o logKernelProfile(lg.name, lg.result, lg.vals,
                                                       lg.timeMs, lg.inputs, lg.extraInfo)]
    /\ UNCHANGED <<profVars, chk>>

----------------------------------------------------------------------------
(* Specifications *)

ProfilerInit(made) ==
    /\ loggerArg \in {"null", "undefined", "injected"}
    /\ logger = Constructor(loggerArg)
    /\ client \in { cl \in [CallIds -> Calls \cup {NoCall}] :
                      \A c \in CallIds : cl[c].made <=> c \in made }
    /\ pc = [c \in CallIds |-> "idle"]
    /\ result = [c \in CallIds |-> Undefined]
    /\ ret = [c \in CallIds |-> Undefined]
    /\ fCalls = [c \in CallIds |-> 0]
    /\ timerCalls = [c \in CallIds |-> 0]
    /\ timer = [c \in CallIds |-> [state |-> "none", timing |-> NoTiming]]
    /\ reads = [c \in CallIds |-> <<>>]

\* one profileKernel call on a fresh Profiler
Init ==
    /\ ProfilerInit({1})
    /\ chk = CheckIdle
    /\ lg = LogIdle

Next ==
    \/ \E c \in CallIds : ProfileKernelTime(c)
    \/ \E c \in CallIds : ProfileKernelRead(c)
    \/ \E c \in CallIds : ProfileKernelReturn(c)
    \/ \E c \in CallIds, k \in 1..MaxOutputs : ReadResolve(c, k)
    \/ \E c \in CallIds, k \in 1..MaxOutputs : ReadReject(c, k)
    \/ \E c \in CallIds : TimerResolve(c)
    \/ \E c \in CallIds : TimerReject(c)
    \/ \E c \in CallIds, k \in 1..MaxOutputs : ReadThen(c, k)
    \/ \E c \in CallIds, k \in 1..MaxOutputs : TimerThen(c, k)

Spec == Init /\ [][Next]_vars

\* two profileKernel calls on one Profiler, of different kernels with
\* different inputs, each closure producing one descriptor
InitTwo ==
    /\ ProfilerInit(CallIds)
    /\ client[1].kernelName # client[2].kernelName
    /\ client[1].inputs # client[2].inputs
    /\ \A c \in CallIds : client[c].f.kind = "info"
    /\ chk = CheckIdle
    /\ lg = LogIdle

SpecTwo == InitTwo /\ [][Next]_vars

\* checkComputationForErrors called on its own
InitCheck ==
    /\ ProfilerInit({})
    /\ \E vals \in SeqsUpTo(Tokens, MaxLen), dtype \in DTypes, kernelName \in KernelNames :
         chk = CheckEntry(vals, dtype, kernelName)
    /\ lg = LogIdle

NextCheck == CheckAdvance

SpecCheck == InitCheck /\ [][NextCheck]_vars

\* Logger.logKernelProfile called on its own
InitLogger ==
    /\ ProfilerInit({})
    /\ chk = CheckIdle
    /\ \E name \in KernelNames \cup {LongName}, shape \in Shapes, timeMs \in LoggerTimes,
          inputs \in LoggerInputMaps, extraInfo \in LoggerExtras :
         lg = [at |-> "entry", name |-> name,
               result |-> [dataId |-> 1, dtype |-> "float32", shape |-> shape],
               vals |-> <<>>, timeMs |-> timeMs, inputs |-> inputs,
               extraInfo |-> extraInfo, lines |-> <<>>]

NextLogger == LoggerCall

SpecLogger == InitLogger /\ [][NextLogger]_vars

\* the steps the event loop itself takes: the rest of a synchronous call, and
\* the callbacks of settled promises
SyncStep == \E c \in CallIds : ProfileKernelRead(c) \/ ProfileKernelReturn(c)

Callback == \E c \in CallIds, k \in 1..MaxOutputs : ReadThen(c, k) \/ TimerThen(c, k)

\* the event loop runs a synchronous call to its end and runs a callback
\* whenever one is ready; nothing is promised of the collaborators' promises
SpecLive == Init /\ [][Next]_vars /\ WF_vars(SyncStep) /\ WF_vars(Callback)

\* one profileKernel call with named inputs, on a Profiler constructed with
\* an injected logger or with none
InitSettle ==
    /\ Init
    /\ loggerArg \in {"undefined", "injected"}
    /\ client[1].inputs # <<>>

\* the same event loop; the collaborators' promises settle or stay pending
SpecSettle == InitSettle /\ [][Next]_vars /\ WF_vars(SyncStep) /\ WF_vars(Callback)

----------------------------------------------------------------------------
(* Properties *)

Outputs(c) == 1..Len(reads[c])

Finished(c) == pc[c] \in {"returned", "threw"}

\* C1: profileKernel returns exactly the value the compute closure produced,
\* one descriptor as one descriptor and a sequence as the same sequence.
C1_ReturnsClosureValue ==
    \A c \in CallIds : pc[c] = "returned" => ret[c] = client[c].f

\* a single descriptor was normalised for the read and came back as itself
C1_Witness ==
    \E c \in CallIds :
        /\ pc[c] = "returned"
        /\ client[c].f.kind = "info"
        /\ ret[c].kind = "info"
        /\ Len(reads[c]) = 1
        /\ reads[c][1].stage = "done"

\* C2: the compute closure is invoked exactly once, inside the synchronous
\* call, and no continuation ever invokes it again.
C2_ClosureInvokedOnce ==
    \A c \in CallIds : fCalls[c] = IF pc[c] = "idle" THEN 0 ELSE 1

\* every continuation of a call with two outputs has run
C2_Witness ==
    \E c \in CallIds :
        /\ pc[c] = "returned"
        /\ Len(reads[c]) = 2
        /\ \A k \in Outputs(c) : reads[c][k].stage = "done"
        /\ fCalls[c] = 1

\* C3: no validation, warning or logger call of an invocation happens while
\* its synchronous call is still running, and the call returns as soon as the
\* reads are started, whatever the state of the promises.
C3_ReturnsBeforeDeferrals ==
    \A c \in CallIds :
        /\ \A k \in Outputs(c) :
             (reads[c][k].checks > 0 \/ reads[c][k].warned # <<>>
                \/ reads[c][k].logs # <<>> \/ reads[c][k].stage # "wait")
             => Finished(c)
        /\ (pc[c] = "forEach" /\ Len(reads[c]) = Len(Results(result[c])))
             => ENABLED ProfileKernelReturn(c)

\* the call has returned its result and no promise of it is settled
C3_Witness ==
    \E c \in CallIds :
        /\ pc[c] = "returned"
        /\ ret[c] = client[c].f
        /\ Len(reads[c]) = 2
        /\ timer[c].state = "pending"
        /\ \A k \in Outputs(c) : reads[c][k].state = "pending"

\* C4: a logger call for an output is made only in a state where that
\* output's read and the invocation's timer are both already resolved.
C4_LogAfterReadAndTimer ==
    [][\A c \in CallIds : \A k \in Outputs(c) :
          reads'[c][k].logs # reads[c][k].logs
          => (reads[c][k].state = "resolved" /\ timer[c].state = "resolved")]_vars

\* one output is logged while the read of the other is still pending
C4_Witness ==
    \E c \in CallIds :
        /\ Len(reads[c]) = 2
        /\ reads[c][1].state = "pending"
        /\ reads[c][2].logs # <<>>

\* C5: a returned call has called the timer once and started one read per
\* output, keyed by the output's data handle; no output is logged twice.
C5_OneTimerOneReadPerOutput ==
    \A c \in CallIds :
        /\ timerCalls[c] <= 1
        /\ \A k \in Outputs(c) : Len(reads[c][k].logs) <= 1
        /\ pc[c] = "returned" =>
             /\ timerCalls[c] = 1
             /\ LET outs == IF client[c].f.kind = "array"
                            THEN client[c].f.items ELSE <<client[c].f.info>>
                IN /\ Len(reads[c]) = Len(outs)
                   /\ \A k \in Outputs(c) : reads[c][k].key = outs[k].dataId

\* a call of two outputs with different handles returned and both are logged
C5_Witness ==
    \E c \in CallIds :
        /\ pc[c] = "returned"
        /\ Len(reads[c]) = 2
        /\ reads[c][1].key # reads[c][2].key
        /\ \A k \in Outputs(c) : Len(reads[c][k].logs) = 1

\* the logger call of output k carries the arguments of its own invocation
LogCarries(c, k, call) ==
    /\ call.name = client[c].kernelName
    /\ call.result = reads[c][k].r
    /\ reads[c][k].r = (IF client[c].f.kind = "array"
                        THEN client[c].f.items[k] ELSE client[c].f.info)
    /\ call.vals = reads[c][k].vals
    /\ call.timeMs = timer[c].timing.kernelMs
    /\ call.inputs = client[c].inputs

ReadyToLog(c, k) ==
    IF k \in Outputs(c)
    THEN reads[c][k].state = "resolved" /\ timer[c].state = "resolved"
    ELSE FALSE

LoggedOnce(c, k) ==
    IF k \in Outputs(c) THEN Len(reads[c][k].logs) = 1 ELSE FALSE

\* C6: once the read of an output and the timer of its invocation are both
\* resolved, the logger is eventually called for that output, and it is
\* called at most once, with the kernel name, the output's descriptor, the
\* values its read resolved to, the timing's kernelMs and the inputs.
\* A settled promise stays settled and a logger call stays made, so "each
\* ready output is eventually logged" is: from every state, a state is reached
\* in which every ready output is logged.
C6_EventuallyLoggedOnce ==
    /\ []<>(\A c \in CallIds : \A k \in 1..MaxOutputs :
              ReadyToLog(c, k) => LoggedOnce(c, k))
    /\ [](\A c \in CallIds : \A k \in Outputs(c) :
            /\ Len(reads[c][k].logs) <= 1
            /\ \A n \in 1..Len(reads[c][k].logs) :
                 LogCarries(c, k, reads[c][k].logs[n]))

\* two outputs whose reads resolved to different values are both logged
C6_Witness ==
    \E c \in CallIds :
        /\ Len(reads[c]) = 2
        /\ reads[c][1].vals # reads[c][2].vals
        /\ \A k \in Outputs(c) : Len(reads[c][k].logs) = 1
        /\ client[c].inputs # <<>>

\* C7: profileKernel never completes by raising: no failure of a read, of
\* validation, of the timer or of the logger reaches the caller.
C7_NoErrorSurfaced ==
    \A c \in CallIds : pc[c] # "threw"

----------------------------------------------------------------------------
(* Properties of checkComputationForErrors *)

Bad(num) == num \in {"NaN", "Infinity", "-Infinity"}

BadAt(vals) == { i \in 1..Len(vals) : Bad(vals[i]) }

FirstBad(vals) == CHOOSE i \in BadAt(vals) : \A j \in BadAt(vals) : i <= j

\* C8: the call returns true exactly when the data type is float32 and some
\* value is NaN or infinite; for another data type it reads no value.
C8_TrueIffFloatAndBad ==
    chk.at = "done" =>
        /\ chk.ret = (chk.dtype = "float32" /\ BadAt(chk.vals) # {})
        /\ chk.dtype # "float32" => (chk.ret = FALSE /\ chk.examined = <<>>)

\* a non-float call on values holding NaN returned false
C8_Witness ==
    /\ chk.at = "done"
    /\ chk.dtype = "bool"
    /\ BadAt(chk.vals) # {}
    /\ chk.ret = FALSE

----------------------------------------------------------------------------
(* Properties of Logger.logKernelProfile: the line is read back *)

Max(a, b) == IF a >= b THEN a ELSE b

Has(s, ch) == \E i \in 1..Len(s) : s[i] = ch

FirstOf(s, ch) == CHOOSE i \in 1..Len(s) : s[i] = ch /\ \A j \in 1..(i - 1) : s[j] # ch

\* the pieces of s between the occurrences of ch
RECURSIVE Split(_, _)
Split(s, ch) ==
    IF ~Has(s, ch) THEN <<s>>
    ELSE <<SubSeq(s, 1, FirstOf(s, ch) - 1)>>
         \o Split(SubSeq(s, FirstOf(s, ch) + 1, Len(s)), ch)

RECURSIVE TrimRight(_)
TrimRight(s) ==
    IF s # <<>> /\ s[Len(s)] = " " THEN TrimRight(SubSeq(s, 1, Len(s) - 1)) ELSE s

Digits == {"0", "1", "2", "3", "4", "5", "6", "7", "8", "9"}

IsNumeral(s) == s # <<>> /\ \A i \in 1..Len(s) : s[i] \in Digits

DigitValue(ch) == CHOOSE d \in 0..9 : Digit(d) = ch

RECURSIVE ReadNumeral(_)
ReadNumeral(s) ==
    IF s = <<>> THEN 0
    ELSE 10 * ReadNumeral(SubSeq(s, 1, Len(s) - 1)) + DigitValue(s[Len(s)])

\* text is the numeral of n
Shows(text, n) == IsNumeral(text) /\ ReadNumeral(text) = n

\* text is the dimensions of shape, comma-separated
ShowsShape(text, shape) ==
    IF shape = <<>> THEN text = <<>>
    ELSE LET dims == Split(text, ",")
         IN /\ Len(dims) = Len(shape)
            /\ \A i \in 1..Len(shape) : Shows(dims[i], shape[i])

\* field is text followed by blanks only, and is at least width wide
PaddedTo(field, width) ==
    /\ Len(field) = Max(width, Len(TrimRight(field)))
    /\ Len(field) > width => field[Len(field)] # " "

RECURSIVE Product(_)
Product(shape) == IF shape = <<>> THEN 1 ELSE Product(Tail(shape)) * Head(shape)

\* the column of a line: its text after the style marker
Column(fmt, n) == LET col == Split(fmt, "\t")[n] IN SubSeq(col, 3, Len(col))

StyledColumns(fmt) ==
    /\ Len(Split(fmt, "\t")) = 6
    /\ \A n \in 1..6 : SubSeq(Split(fmt, "\t")[n], 1, 2) = <<"%", "c">>

NameColumn(col, name) ==
    PaddedTo(col, 25) /\ TrimRight(col) = name

TimeColumn(col, timeMs) ==
    LET text == TrimRight(col)
    IN /\ PaddedTo(col, 9)
       /\ Len(text) >= 3
       /\ SubSeq(text, Len(text) - 1, Len(text)) = <<"m", "s">>
       /\ Shows(SubSeq(text, 1, Len(text) - 2), timeMs)

ShapeColumn(col, shape) ==
    /\ Has(col, "D")
    /\ LET d == FirstOf(col, "D")
           rest == SubSeq(col, d + 2, Len(col))
       IN /\ Shows(SubSeq(col, 1, d - 1), Len(shape))
          /\ Len(col) > d /\ col[d + 1] = " "
          /\ PaddedTo(rest, 14)
          /\ ShowsShape(TrimRight(rest), shape)

\* one description per input, in order: "name: ", the rank and "D ", the
\* shape unless the rank is 0, and a blank
InputsColumn(col, inputs) ==
    LET words == Split(col, " ")
    IN /\ Len(words) = 3 * Len(inputs) + 1
       /\ words[Len(words)] = <<>>
       /\ \A i \in 1..Len(inputs) :
            LET shape == inputs[i].shape
                rank == words[3 * i - 1]
            IN /\ words[3 * i - 2] = inputs[i].name \o <<":">>
               /\ rank # <<>> /\ rank[Len(rank)] = "D"
               /\ Shows(SubSeq(rank, 1, Len(rank) - 1), Len(shape))
               /\ ShowsShape(words[3 * i], shape)

\* C10: a logKernelProfile call emits exactly one line, whose columns are, in
\* this order: the kernel name padded to 25, the time with "ms" padded to 9,
\* the rank and the shape padded to 14, the element count (the product of the
\* dimensions, 1 for the empty shape), one description per input in the
\* mapping's order (no shape for a rank-0 input), and the extra-info string.
C10_OneLineInColumnOrder ==
    /\ lg.at = "entry" => lg.lines = <<>>
    /\ lg.at = "done" =>
        /\ Len(lg.lines) = 1
        /\ LET fmt == lg.lines[1].fmt
           IN /\ StyledColumns(fmt)
              /\ Len(lg.lines[1].styles) = 6
              /\ NameColumn(Column(fmt, 1), lg.name)
              /\ TimeColumn(Column(fmt, 2), lg.timeMs)
              /\ ShapeColumn(Column(fmt, 3), lg.result.shape)
              /\ Shows(Column(fmt, 4), Product(lg.result.shape))
              /\ InputsColumn(Column(fmt, 5), lg.inputs)
              /\ Column(fmt, 6) = lg.extraInfo

\* a line for a rank-2 output, two inputs of which one has rank 0, and extra
\* info
C10_Witness ==
    /\ lg.at = "done"
    /\ Len(lg.lines) = 1
    /\ lg.result.shape = <<2, 2>>
    /\ Len(lg.inputs) = 2
    /\ lg.inputs[2].shape = <<>>
    /\ lg.extraInfo # <<>>
    /\ lg.timeMs > 0

----------------------------------------------------------------------------
(* Properties of the callbacks *)

\* the warnings validation makes of values of a data type for a kernel
WarningsOf(vals, dtype, kernelName) ==
    IF dtype = "float32" /\ BadAt(vals) # {}
    THEN << <<"Found ", vals[FirstBad(vals)], " in the result of '", kernelName, "'">> >>
    ELSE <<>>

Validated(c, k) ==
    IF k \in Outputs(c) THEN reads[c][k].checks = 1 ELSE FALSE

ReadResolved(c, k) ==
    IF k \in Outputs(c) THEN reads[c][k].state = "resolved" ELSE FALSE

\* C11: an output is validated once, when its read has resolved and before
\* its logger call, with the warning its values call for; validation does not
\* wait for the timer: a resolved read is eventually validated whether or not
\* the timer ever resolves, and nothing is logged while the timer is unresolved.
C11_ValidatedOnceWithoutTimer ==
    /\ [](\A c \in CallIds : \A k \in Outputs(c) :
            /\ reads[c][k].checks <= 1
            /\ reads[c][k].checks = 1 => reads[c][k].state = "resolved"
            /\ reads[c][k].logs # <<>> => reads[c][k].checks = 1
            /\ reads[c][k].warned =
                 (IF reads[c][k].checks = 1
                  THEN WarningsOf(reads[c][k].vals, reads[c][k].r.dtype,
                                  client[c].kernelName)
                  ELSE <<>>)
            /\ timer[c].state # "resolved" => reads[c][k].logs = <<>>)
    /\ []<>(\A c \in CallIds : \A k \in 1..MaxOutputs :
              ReadResolved(c, k) => Validated(c, k))

\* a float32 output with a bad value has been warned of while the timer is
\* pending, and is not logged
C11_Witness ==
    \E c \in CallIds : \E k \in Outputs(c) :
        /\ reads[c][k].r.dtype = "float32"
        /\ BadAt(reads[c][k].vals) # {}
        /\ Len(reads[c][k].warned) = 1
        /\ timer[c].state = "pending"
        /\ reads[c][k].logs = <<>>

WarnedAndTimed(c, k) ==
    IF k \in Outputs(c)
    THEN reads[c][k].warned # <<>> /\ timer[c].state = "resolved"
    ELSE FALSE

C13_ExtraInfoFromTiming ==
    \A c \in CallIds : \A k \in Outputs(c) :
        /\ \A n \in 1..Len(reads[c][k].logs) :
             reads[c][k].logs[n].extraInfo =
                 (IF timer[c].timing.hasExtra THEN timer[c].timing.extra ELSE <<>>)
        /\ reads[c][k].accessorCalls =
             (IF timer[c].timing.hasExtra THEN Len(reads[c][k].logs) ELSE 0)
        /\ reads[c][k].accessorCalls > 0 => timer[c].state = "resolved"

\* two outputs are logged with the string of the accessor, called once each
C13_Witness ==
    \E c \in CallIds :
        /\ Len(reads[c]) = 2
        /\ timer[c].timing.hasExtra
        /\ \A k \in Outputs(c) :
             /\ Len(reads[c][k].logs) = 1
             /\ reads[c][k].logs[1].extraInfo = timer[c].timing.extra
             /\ reads[c][k].logs[1].extraInfo # <<>>
             /\ reads[c][k].accessorCalls = 1

\* C14: invocations on one Profiler are independent: in any interleaving of
\* two invocations, every logger call carries the kernel name, the inputs,
\* the descriptor, the read values and the timing of the invocation it was
\* made for, and an invocation that returned has returned its own closure's
\* result.
C14_InvocationsIndependent ==
    \A c \in CallIds :
        /\ pc[c] = "returned" => ret[c] = client[c].f /\ ret[c] = result[c]
        /\ \A k \in Outputs(c) : \A n \in 1..Len(reads[c][k].logs) :
             /\ LogCarries(c, k, reads[c][k].logs[n])
             /\ timer[c].state = "resolved"

\* two invocations that differ in kernel, inputs, read values and timing
\* have both returned and been logged
C14_Witness ==
    /\ \A c \in CallIds : pc[c] = "returned" /\ Len(reads[c]) = 1
                          /\ Len(reads[c][1].logs) = 1
    /\ client[1].f # client[2].f
    /\ reads[1][1].logs[1].name # reads[2][1].logs[1].name
    /\ reads[1][1].logs[1].inputs # reads[2][1].logs[1].inputs
    /\ reads[1][1].logs[1].result # reads[2][1].logs[1].result
    /\ reads[1][1].logs[1].vals # reads[2][1].logs[1].vals
    /\ reads[1][1].logs[1].timeMs # reads[2][1].logs[1].timeMs

\* C15: the logger is the one passed to the constructor: an injected logger
\* receives every record and the default Logger prints none; when null or
\* undefined is passed, the default Logger made at construction receives
\* every record and prints a line for each.
C15_LoggerInjected ==
    /\ logger = (IF loggerArg = "injected" THEN "injected" ELSE "default")
    /\ \A c \in CallIds : \A k \in Outputs(c) :
         /\ \A n \in 1..Len(reads[c][k].logs) :
              reads[c][k].logs[n].logger =
                  (IF loggerArg = "injected" THEN "injected" ELSE "default")
         /\ Len(reads[c][k].lines) =
              (IF loggerArg = "injected" THEN 0 ELSE Len(reads[c][k].logs))

\* a Profiler constructed with undefined for the logger has logged a record
\* on the default Logger
C15_Witness ==
    /\ loggerArg = "undefined"
    /\ \E c \in CallIds : \E k \in Outputs(c) :
         /\ Len(reads[c][k].logs) = 1
         /\ reads[c][k].logs[1].logger = "default"
         /\ Len(reads[c][k].lines) = 1

\* C16: a failure is contained in its output: an output whose read rejected
\* is neither validated nor logged, and when the timer rejected no output is
\* logged; every output whose read resolved is still validated, and still
\* logged once when the timer resolved, whatever became of the other reads.
C16_FailuresContained ==
    /\ [](\A c \in CallIds : \A k \in Outputs(c) :
            /\ reads[c][k].state = "rejected"
               => /\ reads[c][k].checks = 0
                  /\ reads[c][k].warned = <<>>
                  /\ reads[c][k].logs = <<>>
            /\ timer[c].state = "rejected" => reads[c][k].logs = <<>>)
    /\ []<>(\A c \in CallIds : \A k \in 1..MaxOutputs :
              /\ ReadResolved(c, k) => Validated(c, k)
              /\ ReadyToLog(c, k) => LoggedOnce(c, k))

\* the read of the first output rejected, and the second output was validated
\* and logged
C16_Witness ==
    \E c \in CallIds :
        /\ Len(reads[c]) = 2
        /\ reads[c][1].state = "rejected"
        /\ reads[c][1].checks = 0
        /\ reads[c][2].checks = 1
        /\ Len(reads[c][2].logs) = 1

====
